---- MODULE Spec2Model ----
(***************************************************************************)
(* Model of src/src/main.py, the low-bandwidth news aggregator: the feed   *)
(* source adapters, the temporal filter, the summarization batcher, the    *)
(* date bucketer, the briefing renderer and the driver main().             *)
(*                                                                         *)
(* Text is a sequence of one-character strings.  An optional value (a      *)
(* Python value that may be None, or a dict key that may be missing) is a  *)
(* sequence of length 0 or 1.  Time is an integer number of half days      *)
(* since datetime.min, so that two instants can share a UTC calendar date. *)
(***************************************************************************)
EXTENDS Integers, Sequences, FiniteSets, TLC

\* ------------------------------------------------------------------ bounds

\* Largest number of lines of a model response in the parser specification.
MaxLines == 4

\* Largest number of configured sources (rows of feeds.csv).
MaxSources == 2

\* Last instant the UTC clock can reach during a run.
MaxClock == 4

\* Number of entries of the long feed (one more than the per-source cap).
LongLen == 51

\* ---------------------------------------------------------------- helpers

None == <<>>

Some(x) == <<x>>

Min(a, b) == IF a <= b THEN a ELSE b

SetMax(S) == CHOOSE x \in S : \A y \in S : y <= x

RECURSIVE SumSeq(_)
SumSeq(s) == IF s = <<>> THEN 0 ELSE Head(s) + SumSeq(Tail(s))

RECURSIVE FlattenSeq(_)
FlattenSeq(ss) == IF ss = <<>> THEN <<>> ELSE Head(ss) \o FlattenSeq(Tail(ss))

\* ------------------------------------------------------------------- text

DigitChars == {"0", "1", "2", "3", "4", "5", "6", "7", "8", "9"}

DigitVal(c) ==
    CASE c = "0" -> 0 [] c = "1" -> 1 [] c = "2" -> 2 [] c = "3" -> 3
      [] c = "4" -> 4 [] c = "5" -> 5 [] c = "6" -> 6 [] c = "7" -> 7
      [] c = "8" -> 8 [] c = "9" -> 9

\* Characters str.strip() removes and the regex class \s matches.
Whitespace == {" ", "\t", "\n", "\r"}

\* The regex class [\.\)\s] of line 285.
SepChars == {".", ")"} \cup Whitespace

RECURSIVE LStrip(_)
LStrip(s) == IF s # <<>> /\ Head(s) \in Whitespace THEN LStrip(Tail(s)) ELSE s

RECURSIVE RStrip(_)
RStrip(s) ==
    IF s # <<>> /\ s[Len(s)] \in Whitespace
    THEN RStrip(SubSeq(s, 1, Len(s) - 1))
    ELSE s

\* str.strip()
Strip(s) == RStrip(LStrip(s))

\* str.split('\n'): the pieces between newlines; one piece when there is none.
RECURSIVE SplitNL(_)
SplitNL(s) ==
    LET nl == {i \in 1..Len(s) : s[i] = "\n"}
    IN  IF nl = {}
        THEN <<s>>
        ELSE LET i == CHOOSE j \in nl : \A k \in nl : j <= k
             IN  <<SubSeq(s, 1, i - 1)>> \o SplitNL(SubSeq(s, i + 1, Len(s)))

\* int(): the value of a string of decimal digits.
RECURSIVE DigitsToInt(_)
DigitsToInt(s) ==
    IF s = <<>> THEN 0
    ELSE 10 * DigitsToInt(SubSeq(s, 1, Len(s) - 1)) + DigitVal(s[Len(s)])

\* '\n'.join(lines)
RECURSIVE JoinNL(_)
JoinNL(lines) ==
    IF lines = <<>> THEN <<>>
    ELSE IF Len(lines) = 1 THEN lines[1]
    ELSE lines[1] \o <<"\n">> \o JoinNL(Tail(lines))

SummaryUnavailable ==
    <<"S", "u", "m", "m", "a", "r", "y", " ",
      "u", "n", "a", "v", "a", "i", "l", "a", "b", "l", "e">>

ErrorGeneratingSummary ==
    <<"E", "r", "r", "o", "r", " ", "g", "e", "n", "e", "r", "a", "t", "i", "n", "g",
      " ", "s", "u", "m", "m", "a", "r", "y">>

\* ------------------------------------------------- summarization batcher

\* The pattern with (.*) for its last group: a line that ends with its
\* separators matches, with an empty text.
re_match_star(line) ==
    LET n == Len(line)
        cands == {c \in (1..n) \X (1..n) :
                    /\ c[1] + c[2] <= n
                    /\ \A i \in 1..c[1] : line[i] \in DigitChars
                    /\ \A i \in (c[1] + 1)..(c[1] + c[2]) : line[i] \in SepChars
                    /\ \A i \in (c[1] + c[2] + 1)..n : line[i] # "\n"}
    IN  IF cands = {}
        THEN None
        ELSE LET d == SetMax({c[1] : c \in cands})
                 s == SetMax({c[2] : c \in {x \in cands : x[1] = d}})
             IN  Some([num  |-> DigitsToInt(SubSeq(line, 1, d)),
                       text |-> SubSeq(line, d + s + 1, n)])

\* re.match(r'^(\d+)[\.\)\s]+(.+)$', line): both repetitions are greedy and
\* give back characters only when the rest cannot match, so the match found is
\* the one with the longest digit run and then the longest separator run that
\* leave at least one character for the last group.
re_match(line) ==
    LET n == Len(line)
        cands == {c \in (1..n) \X (1..n) :
                    /\ c[1] + c[2] < n
                    /\ \A i \in 1..c[1] : line[i] \in DigitChars
                    /\ \A i \in (c[1] + 1)..(c[1] + c[2]) : line[i] \in SepChars
                    /\ \A i \in (c[1] + c[2] + 1)..n : line[i] # "\n"}
    IN  IF cands = {}
        THEN None
        ELSE LET d == SetMax({c[1] : c \in cands})
                 s == SetMax({c[2] : c \in {x \in cands : x[1] = d}})
             IN  Some([num  |-> DigitsToInt(SubSeq(line, 1, d)),
                       text |-> SubSeq(line, d + s + 1, n)])

\* summaries[num] = summary
DictPut(d, k, v) == [x \in (DOMAIN d) \cup {k} |-> IF x = k THEN v ELSE d[x]]

\* The loop of lines 280-289 over the lines not yet read.
RECURSIVE ParseLines(_, _)
ParseLines(lines, summaries) ==
    IF lines = <<>>
    THEN summaries
    ELSE LET line == Strip(Head(lines))
             match == IF line = <<>> THEN None ELSE re_match(line)
         IN  ParseLines(Tail(lines),
                        IF match = None
                        THEN summaries
                        ELSE DictPut(summaries, match[1].num, Strip(match[1].text)))

\* Lines 279-289: the dict of the numbered summaries of a response text.
ParseSummaries(response_text) == ParseLines(SplitNL(Strip(response_text)), <<>>)

\* summaries.get(i, ...): the lookup by the 0-based position.
AssignSummariesZeroBased(articles, summaries) ==
    [k \in 1..Len(articles) |->
        [articles[k] EXCEPT !.summary =
            Some(IF (k - 1) \in DOMAIN summaries
                 THEN summaries[k - 1] ELSE SummaryUnavailable)]]

\* Lines 292-293: summaries.get(i + 1, "Summary unavailable") for the article
\* at 0-based position i, that is at 1-based position i + 1.
AssignSummaries(articles, summaries) ==
    [k \in 1..Len(articles) |->
        [articles[k] EXCEPT !.summary =
            Some(IF k \in DOMAIN summaries THEN summaries[k] ELSE SummaryUnavailable)]]

\* Lines 299-300.
AssignError(articles) ==
    [k \in 1..Len(articles) |-> [articles[k] EXCEPT !.summary = Some(ErrorGeneratingSummary)]]

\* What client.messages.create does: it returns a message whose content is a
\* list of text blocks, or raises anthropic.APIError.
ApiError == [kind |-> "api_error", content |-> <<>>]

Message(content) == [kind |-> "message", content |-> content]

\* generate_summaries on a non-empty list, for one outcome of the service call.
\* raised: an exception left the function (message.content[0] on an empty
\* content list is an IndexError, which `except anthropic.APIError` lets pass).
generate_summaries(articles, outcome) ==
    IF outcome.kind = "api_error"
    THEN [raised |-> FALSE, articles |-> AssignError(articles)]
    ELSE IF outcome.content = <<>>
    THEN [raised |-> TRUE, articles |-> articles]
    ELSE [raised |-> FALSE,
          articles |-> AssignSummaries(articles, ParseSummaries(outcome.content[1]))]

\* ------------------------------------------------------------------- time

\* datetime.min, the sort key of an article without pub_date (line 325).
DatetimeMin == 0

\* .astimezone(UTC).date(): the UTC calendar date of an instant, as a day number.
UTCDate(t) == t \div 2

\* date.strftime("%Y-%m-%d") of a day number.
DateNames ==
    <<"0001-01-01", "0001-01-02", "0001-01-03", "0001-01-04", "0001-01-05", "0001-01-06">>

DateStr(d) == DateNames[d + 1]

\* ---------------------------------------------------- feed source adapters

\* A time struct of a feed entry; datetime(*parsed[:6]) raises when it is not
\* a calendar time.
TimeStruct(t) == [valid |-> TRUE, t |-> t]

BadStruct == [valid |-> FALSE, t |-> 0]

\* Markup text: `tags` characters of markup and `text` characters that remain
\* once clean_html has removed the tags and collapsed the white space.
Html(tags, text) == [tags |-> tags, text |-> text]

\* Length of clean_html(text), and of clean_html of a missing value.
clean_html(text) == IF text = None THEN 0 ELSE text[1].text

\* Lines 49-60: the first of the three date fields that is set and converts.
parse_pub_date(entry) ==
    LET fields == <<entry.published_parsed, entry.updated_parsed, entry.created_parsed>>
        usable == {i \in 1..3 : fields[i] # None /\ fields[i][1].valid}
    IN  IF usable = {}
        THEN None
        ELSE Some(fields[CHOOSE i \in usable : \A j \in usable : i <= j][1].t)

\* The comparison without .astimezone(UTC), for a publisher whose zone is
\* half a day ahead of UTC.
is_today_local(pub_date, clock) ==
    IF pub_date = None THEN FALSE ELSE (pub_date[1] + 1) \div 2 = UTCDate(clock)

\* Lines 63-71, with the value datetime.now(UTC) returns.
is_today(pub_date, clock) ==
    IF pub_date = None THEN FALSE ELSE UTCDate(pub_date[1]) = UTCDate(clock)

\* len(', '.join(names)) for the lengths of the names.
JoinedLen(names) == IF names = <<>> THEN 0 ELSE SumSeq(names) + 2 * (Len(names) - 1)

\* Lines 121 and 128: len(clean_html(summary)[:500]).
RssContent(entry) == Min(clean_html(entry.summary), 500)

\* Lines 152-156: len(raw); "Authors: " has 9 characters and ". " has 2.
AtomContent(entry) ==
    LET authors == JoinedLen(entry.authors)
        summary == Min(clean_html(entry.summary), 500)
    IN  IF authors > 0 THEN 9 + authors + 2 + summary ELSE summary

\* Line 187: summary, or description when the entry has no summary.
PodcastContent(entry) ==
    Min(clean_html(IF entry.summary # None THEN entry.summary ELSE entry.description), 500)

Content(kind, entry) ==
    CASE kind = "atom" -> AtomContent(entry)
      [] kind = "podcast" -> PodcastContent(entry)
      [] OTHER -> RssContent(entry)

\* The article dict of lines 123-130; source and entry stand for the fields
\* that name it (category, source, title, link).  No 'summary' key yet.
Article(source, entry, raw_len, pub_date) ==
    [source |-> source, entry |-> entry, raw_len |-> raw_len,
     pub_date |-> pub_date, summary |-> None]

\* max_items: int = 50
max_items == 50

\* batch_size = 20
batch_size == 20

\* The loop of lines 113-130 (144-165, 179-196) from entry i on.
RECURSIVE FeedLoop(_, _, _, _, _, _)
FeedLoop(kind, source, entries, i, all, clock) ==
    IF i > Len(entries)
    THEN <<>>
    ELSE LET pub_date == parse_pub_date(entries[i])
         IN  IF ~all /\ ~is_today(pub_date, clock)
             THEN FeedLoop(kind, source, entries, i + 1, all, clock)
             ELSE <<Article(source, i, Content(kind, entries[i]), pub_date)>>
                    \o FeedLoop(kind, source, entries, i + 1, all, clock)

\* feed.entries in both modes.
ConsideredAll(entries, all) == entries

\* feed.entries if fetch_all else feed.entries[:max_items]
Considered(entries, all) ==
    IF all THEN entries ELSE SubSeq(entries, 1, Min(Len(entries), max_items))

\* fetch_rss whose handler returns the articles made before the exception.
fetch_rss_partial(src, source, all, clock) ==
    IF ~src.raises /\ src.feed.bozo /\ src.feed.entries = <<>> THEN <<>>
    ELSE FeedLoop("rss", source, Considered(src.feed.entries, all), 1, all, clock)

\* Lines 105-135.
fetch_rss(src, source, all, clock) ==
    IF src.raises THEN <<>>
    ELSE IF src.feed.bozo /\ src.feed.entries = <<>> THEN <<>>
    ELSE FeedLoop("rss", source, Considered(src.feed.entries, all), 1, all, clock)

\* Lines 138-170.
fetch_atom(src, source, all, clock) ==
    IF src.raises THEN <<>>
    ELSE FeedLoop("atom", source, Considered(src.feed.entries, all), 1, all, clock)

\* Lines 173-201.
fetch_podcast(src, source, all, clock) ==
    IF src.raises THEN <<>>
    ELSE FeedLoop("podcast", source, Considered(src.feed.entries, all), 1, all, clock)

\* Lines 204-222: page.text is the length of the extracted text, None when the
\* download or the extraction gives nothing.
fetch_scrape(src, source, clock) ==
    IF src.raises THEN <<>>
    ELSE IF src.page = None \/ src.page[1] = 0 THEN <<>>
    ELSE <<Article(source, 1, Min(src.page[1], 800), Some(clock))>>

\* Lines 391-394 of main and line 227: a blank type is 'rss'.
FeedType(kind) == IF kind = "" THEN "rss" ELSE kind

\* Lines 225-236.
fetch_content(src, source, all, clock) ==
    LET feed_type == FeedType(src.kind)
    IN  CASE feed_type = "atom" -> fetch_atom(src, source, all, clock)
          [] feed_type = "podcast" -> fetch_podcast(src, source, all, clock)
          [] feed_type = "scrape" -> fetch_scrape(src, source, clock)
          [] OTHER -> fetch_rss(src, source, all, clock)

\* --------------------------------------------- date bucketer and renderer

\* The key without .astimezone(UTC), for a publisher whose zone is half a
\* day ahead of UTC.
DateKeyLocal(article) ==
    IF article.pub_date # None THEN DateStr((article.pub_date[1] + 1) \div 2) ELSE "unknown"

\* Lines 313-317: the key of an article's group.
DateKey(article) ==
    IF article.pub_date # None THEN DateStr(UTCDate(article.pub_date[1])) ELSE "unknown"

\* Lines 309-319: the groups, each in the order of the input.
group_articles_by_date(articles) ==
    [key \in {DateKey(articles[i]) : i \in 1..Len(articles)} |->
        SelectSeq(articles, LAMBDA a : DateKey(a) = key)]

\* The key of line 325: x.get('pub_date') or datetime.min.
SortKey(article) == IF article.pub_date # None THEN article.pub_date[1] ELSE DatetimeMin

\* The articles whose key is in `keys`, by decreasing key, those of one key
\* in the order they have in `articles`.
RECURSIVE SortByKeys(_, _)
SortByKeys(articles, keys) ==
    IF keys = {} THEN <<>>
    ELSE LET greatest == SetMax(keys)
         IN  SelectSeq(articles, LAMBDA a : SortKey(a) = greatest)
               \o SortByKeys(articles, keys \ {greatest})

\* The list left in the order of the fetch.
Unsorted(articles) == articles

\* Line 325: articles.sort(key=..., reverse=True).  The sort is stable, and
\* reverse=True keeps the original order of the articles with equal keys.
SortArticles(articles) ==
    SortByKeys(articles, {SortKey(articles[k]) : k \in 1..Len(articles)})

\* Line 306: every '|' becomes '\|'.
escape_markdown(text) ==
    FlattenSeq([i \in 1..Len(text) |-> IF text[i] = "|" THEN <<"\\", "|">> ELSE <<text[i]>>])

\* Line 338: article.get('summary', 'N/A'), escaped.
SummaryCell(article) ==
    escape_markdown(IF article.summary = None THEN <<"N", "/", "A">> ELSE article.summary[1])

\* Lines 322-354: the document written to <date_str>.md; one row per article
\* of the sorted list, and the count of the "Total Articles" line.
write_briefing(articles, date_str) ==
    LET sorted == SortArticles(articles)
    IN  [date_str |-> date_str,
         total    |-> Len(sorted),
         rows     |-> [i \in 1..Len(sorted) |->
                          [article |-> sorted[i], summary |-> SummaryCell(sorted[i])]]]

\* Lines 429-439: sorted(grouped.keys(), reverse=True) without "unknown", whose
\* group is skipped; string order on these keys is the order of the dates.
WrittenKeys(grouped) == (DOMAIN grouped) \ {"unknown"}

\* ----------------------------------------------------------------- inputs

Entry(published, updated, created, summary, description, authors) ==
    [published_parsed |-> published, updated_parsed |-> updated,
     created_parsed |-> created, summary |-> summary,
     description |-> description, authors |-> authors]

\* An entry published at t with a short summary and no authors.
Plain(t) == Entry(Some(TimeStruct(t)), None, None, Some(Html(10, 40)), None, <<>>)

\* Two entries of the first day of the run and one of the day before, not in
\* time order; the first has 501 characters of summary, the second one author
\* with an empty name.
ShortFeed ==
    [bozo |-> FALSE,
     entries |-> <<Entry(Some(TimeStruct(2)), None, None, Some(Html(10, 501)), None, <<>>),
                   Entry(Some(TimeStruct(1)), None, None, Some(Html(0, 499)), None, <<0>>),
                   Plain(3)>>]

\* An entry with no date and 501 characters of summary; an entry whose
\* published date does not convert, dated by its updated field, with a
\* description and no summary; an entry dated by its created field, a day
\* later, with three authors and 500 characters of summary.
MixedFeed ==
    [bozo |-> TRUE,
     entries |-> <<Entry(None, None, None, Some(Html(7, 501)), None, <<>>),
                   Entry(Some(BadStruct), Some(TimeStruct(3)), None, None,
                         Some(Html(5, 600)), <<>>),
                   Entry(None, None, Some(TimeStruct(4)), Some(Html(0, 500)), None,
                         <<4, 0, 6>>)>>]

\* More entries than max_items: the first of the day before, the others of
\* the first day of the run.
LongFeed ==
    [bozo |-> FALSE,
     entries |-> [i \in 1..LongLen |-> Plain(IF i = 1 THEN 1 ELSE 2)]]

\* One entry more than a batch holds, all of the first day of the run, in
\* increasing time order.
BatchFeed ==
    [bozo |-> FALSE,
     entries |-> [k \in 1..(batch_size + 1) |-> Plain(IF k = 1 THEN 2 ELSE 3)]]

\* A feed that could not be parsed at all.
BrokenFeed == [bozo |-> TRUE, entries |-> <<>>]

Source(kind, feed, page, raises) ==
    [kind |-> kind, feed |-> feed, page |-> page, raises |-> raises]

\* The rows of feeds.csv a run can meet, with what retrieval gives for each.
SourceSet ==
    {Source("", ShortFeed, None, FALSE),
     Source("atom", MixedFeed, None, FALSE),
     Source("podcast", MixedFeed, None, FALSE),
     Source("rss", BatchFeed, None, FALSE),
     Source("scrape", BrokenFeed, Some(801), FALSE)}
    \cup {Source(k, ShortFeed, Some(801), TRUE) : k \in {"rss", "atom", "podcast", "scrape", ""}}

\* What one adapter call can be given.
AdapterInputs ==
    {Source(k, f, p, r) :
        k \in {"rss", "atom", "podcast", "scrape", ""},
        f \in {ShortFeed, MixedFeed, LongFeed, BrokenFeed},
        p \in {None, Some(0), Some(800), Some(801)},
        r \in BOOLEAN}

\* str(k) for 0 <= k < 1000.
IntToDigits(k) ==
    LET D == <<"0", "1", "2", "3", "4", "5", "6", "7", "8", "9">>
    IN  IF k < 10 THEN <<D[k + 1]>>
        ELSE IF k < 100 THEN <<D[(k \div 10) + 1], D[(k % 10) + 1]>>
        ELSE <<D[(k \div 100) + 1], D[((k \div 10) % 10) + 1], D[(k % 10) + 1]>>

\* The answer asked for: "k. ok" for every article k of the batch.
FullResponse(n) == JoinNL([k \in 1..n |-> IntToDigits(k) \o <<".", " ", "o", "k">>])

\* An answer with a preamble, a line with no text, a blank line, no line 3
\* and a line 4 in the form "4 b".
PartialResponse ==
    JoinNL(<< <<"H", "e", "r", "e", ":">>,
              <<"1", ")", " ", " ", "a", "|", "b", " ">>,
              <<"2", ".">>,
              <<>>,
              <<"4", " ", "b">> >>)

\* The outcomes of one call of the service other than the answer asked for.
FaultOutcomes == {Message(<<PartialResponse>>), Message(<<>>), ApiError}

\* The response lines of the parser specification.
ParseLineSet ==
    { <<"1", ".", " ", "a">>,
      <<" ", "1", ".", " ", " ", "d", " ">>,
      <<"2", ")", " ", "b">>,
      <<"3", " ", "c">>,
      <<"0", "4", ".", "\t", "e">>,
      <<"5", ".", " ", "f", " ", "g">>,
      <<"1", "2", ".", " ", "h">>,
      <<"0", ".", " ", "i">>,
      <<"2", ".", ")">>,
      <<"3", ".">>,
      <<"1", ".", " ", ".", "j">>,
      <<"x", " ", "1", ".", " ", "k">>,
      <<" ">> }

\* Sequences of at most n elements of S.
RECURSIVE SeqsUpTo(_, _)
SeqsUpTo(S, n) ==
    IF n = 0 THEN {<<>>}
    ELSE LET shorter == SeqsUpTo(S, n - 1)
         IN  shorter \cup {Append(q, x) : q \in {r \in shorter : Len(r) = n - 1}, x \in S}

\* Batch sizes of the parser specification.
ParseBatchSizes == {1, 5}

\* ------------------------------------------------------------------ state

VARIABLES
    pc,            \* where main() is
    fetch_all,     \* args.fetch_all
    now,           \* what datetime.now(UTC) returns
    all_articles,  \* the list all_articles of main()
    src_log,       \* one record per row of feeds.csv read so far
    i,             \* the loop variable of line 415
    requests,      \* one record per call of client.messages.create
    files,         \* the documents of "Daily Briefings", by date_str
    resp_lines     \* the lines of the response (parser specification)

vars == <<pc, fetch_all, now, all_articles, src_log, i, requests, files, resp_lines>>

\* Largest number of calls of the service in one run that do not return the
\* answer asked for.
MaxFaults == 1

NoFiles == [key \in {} |-> None]

Init ==
    /\ pc = "fetch"
    /\ fetch_all \in BOOLEAN
    /\ now = 3
    /\ all_articles = <<>>
    /\ src_log = <<>>
    /\ i = 0
    /\ requests = <<>>
    /\ files = NoFiles
    /\ resp_lines = <<>>

\* Whether the adapter call reads the clock: is_today at lines 116, 147 and
\* 182 when fetch_all is off, datetime.now(UTC) at line 217.
ReadsClock(src, all) ==
    ~src.raises /\ (IF FeedType(src.kind) = "scrape" THEN src.page # None ELSE ~all)

\* Lines 387-400: one iteration of the loop over the rows.  `now` is the last
\* instant read from the clock; a later read returns an instant no earlier.
\* The clock reads of one adapter call are taken at one instant.
FetchSource ==
    /\ pc = "fetch"
    /\ Len(src_log) < MaxSources
    /\ \E src \in SourceSet :
       \E clock \in IF ReadsClock(src, fetch_all) THEN now..MaxClock ELSE {now} :
          /\ now' = clock
          /\ all_articles' =
                all_articles \o fetch_content(src, Len(src_log) + 1, fetch_all, clock)
          /\ src_log' = Append(src_log, [src |-> src, clock |-> clock])
    /\ UNCHANGED <<pc, fetch_all, i, requests, files, resp_lines>>

\* Lines 402-407: the rows are exhausted; main returns when nothing was fetched.
EndFetch ==
    /\ pc = "fetch"
    /\ pc' = IF all_articles = <<>> THEN "no_articles" ELSE "summarize"
    /\ UNCHANGED <<fetch_all, now, all_articles, src_log, i, requests, files, resp_lines>>

Faults == Cardinality({r \in 1..Len(requests) : requests[r].fault})

\* Lines 415-418: one iteration of the loop over the batches.  The batch is a
\* slice of all_articles holding the same dicts, so what generate_summaries
\* assigns shows in all_articles.  An exception generate_summaries lets pass
\* leaves main().
Summarize ==
    /\ pc = "summarize"
    /\ LET last == Min(i + batch_size, Len(all_articles))
           batch == SubSeq(all_articles, i + 1, last)
       IN  \E outcome \in {Message(<<FullResponse(Len(batch))>>)}
                           \cup (IF Faults < MaxFaults THEN FaultOutcomes ELSE {}) :
              LET result == generate_summaries(batch, outcome)
              IN  /\ requests' = Append(requests,
                        [first |-> i + 1, last |-> last,
                         fault |-> outcome \in FaultOutcomes,
                         failed |-> outcome = ApiError \/ outcome = Message(<<>>),
                         raised |-> result.raised])
                  /\ all_articles' = SubSeq(all_articles, 1, i) \o result.articles
                                       \o SubSeq(all_articles, last + 1, Len(all_articles))
                  /\ IF result.raised
                     THEN pc' = "aborted" /\ i' = i
                     ELSE /\ i' = i + batch_size
                          /\ pc' = IF i + batch_size < Len(all_articles)
                                   THEN "summarize" ELSE "render"
    /\ UNCHANGED <<fetch_all, now, src_log, files, resp_lines>>

\* Lines 443-453: the single document of the default mode, labelled with the
\* UTC date read at line 447; write_briefing sorts all_articles in place.
WriteToday ==
    /\ pc = "render"
    /\ ~fetch_all
    /\ \E clock \in now..MaxClock :
          LET today == DateStr(UTCDate(clock))
              doc == write_briefing(all_articles, today)
          IN  /\ now' = clock
              /\ files' = [key \in {today} |-> doc]
              /\ all_articles' = [k \in 1..Len(all_articles) |-> doc.rows[k].article]
    /\ pc' = "done"
    /\ UNCHANGED <<fetch_all, src_log, i, requests, resp_lines>>

\* Lines 423-442: one document per group but the group "unknown".
WriteByDate ==
    /\ pc = "render"
    /\ fetch_all
    /\ LET grouped == group_articles_by_date(all_articles)
       IN  files' = [key \in WrittenKeys(grouped) |-> write_briefing(grouped[key], key)]
    /\ pc' = "done"
    /\ UNCHANGED <<fetch_all, now, all_articles, src_log, i, requests, resp_lines>>

Next == FetchSource \/ EndFetch \/ Summarize \/ WriteToday \/ WriteByDate

Spec == Init /\ [][Next]_vars

\* ------------------------------------------------ parser specification

\* generate_summaries as a function of the response text: a batch of n
\* articles and a response of at most MaxLines lines.
InitParse ==
    /\ pc = "parse"
    /\ fetch_all = FALSE
    /\ now = 2
    /\ all_articles \in {[k \in 1..n |-> Article(1, k, 0, None)] : n \in ParseBatchSizes}
    /\ src_log = <<>>
    /\ i = 0
    /\ requests = <<>>
    /\ files = NoFiles
    /\ resp_lines \in SeqsUpTo(ParseLineSet, MaxLines)

ParseResponse ==
    /\ pc = "parse"
    /\ all_articles' = generate_summaries(all_articles, Message(<<JoinNL(resp_lines)>>)).articles
    /\ pc' = "parsed"
    /\ UNCHANGED <<fetch_all, now, src_log, i, requests, files, resp_lines>>

NextParse == ParseResponse

SpecParse == InitParse /\ [][NextParse]_vars

\* ------------------------------------------------ adapter specification

\* fetch_content as a function of the row, the mode and the clock.
InitFetch ==
    /\ pc = "call"
    /\ fetch_all \in BOOLEAN
    /\ now \in 0..MaxClock
    /\ all_articles = <<>>
    /\ src_log = <<>>
    /\ i = 0
    /\ requests = <<>>
    /\ files = NoFiles
    /\ resp_lines = <<>>

CallAdapter ==
    /\ pc = "call"
    /\ \E src \in AdapterInputs :
          /\ all_articles' = fetch_content(src, 1, fetch_all, now)
          /\ src_log' = <<[src |-> src, clock |-> now]>>
    /\ pc' = "returned"
    /\ UNCHANGED <<fetch_all, now, i, requests, files, resp_lines>>

NextFetch == CallAdapter

SpecFetch == InitFetch /\ [][NextFetch]_vars

\* ================================================================= claims

\* The articles of all_articles that row k of feeds.csv produced.
ItemsOf(k) == SelectSeq(all_articles, LAMBDA a : a.source = k)

\* An article as its adapter made it, before a summary was attached.
Bare(article) == [article EXCEPT !.summary = None]

SeqToSet(s) == {s[k] : k \in 1..Len(s)}

\* The articles of the rows of a document.
RowArticles(doc) == [k \in 1..Len(doc.rows) |-> doc.rows[k].article]

\* ---------------------------------------------------------------- C1

\* C1: every item an adapter produces has len(rawContent) at most its cap,
\* 500 for the rss, atom and podcast adapters and 800 for the scrape adapter.
C1_RawContentWithinCap ==
    pc = "returned" =>
        \A k \in 1..Len(all_articles) :
            all_articles[k].raw_len <=
                (IF FeedType(src_log[1].src.kind) = "scrape" THEN 800 ELSE 500)

\* ---------------------------------------------------------------- C2

\* C2: whenever a call of the summarization service fails, by an API error or
\* by a malformed or empty response object, no exception leaves
\* generate_summaries, the run goes on, every item of that batch has the
\* summary "Error generating summary", and the batch is requested only once.
\* (The positions of a batch are those of all_articles until write_briefing
\* sorts it.)
C2_BatchErrorCaught ==
    \A r \in 1..Len(requests) :
        requests[r].failed =>
            /\ ~requests[r].raised
            /\ pc # "aborted"
            /\ pc # "done" =>
                  \A k \in requests[r].first..requests[r].last :
                      all_articles[k].summary = Some(ErrorGeneratingSummary)
            /\ \A q \in 1..Len(requests) : q # r => requests[q].first # requests[r].first

\* ---------------------------------------------------------------- C3

\* C3: every item of every written document has a summary that is present and
\* not empty, and its Summary cell is that summary and not the placeholder of
\* a missing one.
C3_SummaryNonEmpty ==
    \A key \in DOMAIN files :
        \A k \in 1..Len(files[key].rows) :
            LET row == files[key].rows[k]
            IN  /\ row.article.summary # None
                /\ row.article.summary[1] # <<>>
                /\ row.summary # <<>>
                /\ row.summary = escape_markdown(row.article.summary[1])

\* A document was written with a row whose summary is a parsed text and a row
\* whose summary is "Summary unavailable".
C3_Witness ==
    \E key \in DOMAIN files :
        \E j, k \in 1..Len(files[key].rows) :
            /\ files[key].rows[j].article.summary = Some(SummaryUnavailable)
            /\ files[key].rows[k].article.summary # None
            /\ files[key].rows[k].article.summary[1]
                  \notin {SummaryUnavailable, ErrorGeneratingSummary}

\* ---------------------------------------------------------------- C4

\* What row k contributes when its retrieval does not raise.
ExpectedOf(k) == fetch_content(src_log[k].src, k, fetch_all, src_log[k].clock)

\* C4: a row whose retrieval raises contributes no item; every other row's
\* items are in all_articles, whatever rows come before or after it; only an
\* exception of the summarization step ends the run early; and when the run
\* completes, every item of the other rows is in a document (in full-history
\* mode, every item that has a publicationTime).
C4_SourceFailureIsolated ==
    /\ \A k \in 1..Len(src_log) :
          IF src_log[k].src.raises
          THEN ItemsOf(k) = <<>>
          ELSE /\ Len(ItemsOf(k)) = Len(ExpectedOf(k))
               /\ {Bare(a) : a \in SeqToSet(ItemsOf(k))} = SeqToSet(ExpectedOf(k))
    /\ pc = "aborted" => requests # <<>> /\ requests[Len(requests)].raised
    /\ pc = "no_articles" => \A k \in 1..Len(src_log) : ExpectedOf(k) = <<>>
    /\ pc = "done" =>
          \A k \in 1..Len(src_log) :
              \A a \in SeqToSet(ItemsOf(k)) :
                  \/ fetch_all /\ a.pub_date = None
                  \/ \E key \in DOMAIN files : a \in SeqToSet(RowArticles(files[key]))

\* A run completed in which the first row raised and the items of the second
\* are in a document.
C4_Witness ==
    /\ pc = "done"
    /\ Len(src_log) = 2
    /\ src_log[1].src.raises
    /\ ItemsOf(2) # <<>>
    /\ \E key \in DOMAIN files : ItemsOf(2)[1] \in SeqToSet(RowArticles(files[key]))

\* ---------------------------------------------------------------- C5

\* The length of the run of digits a text starts with.
DigitRun(t) ==
    IF \A k \in 1..Len(t) : t[k] \in DigitChars
    THEN Len(t)
    ELSE (CHOOSE k \in 1..Len(t) :
              t[k] \notin DigitChars /\ \A j \in 1..(k - 1) : t[j] \in DigitChars) - 1

\* A response line is numbered n when, trimmed, it is the decimal number n, then
\* one of '.', ')' and white space, then at least one more character.
NumberedLine(line, n) ==
    LET t == Strip(line)
        d == DigitRun(t)
    IN  /\ d >= 1
        /\ d + 2 <= Len(t)
        /\ t[d + 1] \in SepChars
        /\ DigitsToInt(SubSeq(t, 1, d)) = n

\* The text of a numbered line: what follows the number and the separators
\* after it (the last separator when nothing else follows), trimmed.
LineText(line) ==
    LET t == Strip(line)
        d == DigitRun(t)
        rest == SubSeq(t, d + 1, Len(t))
        seps == IF \A k \in 1..Len(rest) : rest[k] \in SepChars
                THEN Len(rest) - 1
                ELSE (CHOOSE k \in 1..Len(rest) :
                          rest[k] \notin SepChars
                          /\ \A j \in 1..(k - 1) : rest[j] \in SepChars) - 1
    IN  Strip(SubSeq(rest, seps + 1, Len(rest)))

\* C5: for a batch of N items and any response text, the item at 1-based
\* position k gets the trimmed text of the response line numbered k (the last
\* one when several are), and "Summary unavailable" when no line is numbered
\* k; lines with other numbers, and the response, change nothing else of an item.
C5_IndexMapping ==
    pc = "parsed" =>
        \A k \in 1..Len(all_articles) :
            LET numbered == {j \in 1..Len(resp_lines) : NumberedLine(resp_lines[j], k)}
            IN  /\ all_articles[k].summary =
                      Some(IF numbered = {}
                           THEN SummaryUnavailable
                           ELSE LineText(resp_lines[SetMax(numbered)]))
                /\ Bare(all_articles[k]) = Article(1, k, 0, None)

\* A batch of 5 whose response has lines numbered 1, 2, 4 and 5 and none
\* numbered 3: item 3 alone has the sentinel.
C5_Witness ==
    /\ pc = "parsed"
    /\ Len(all_articles) = 5
    /\ \A k \in {1, 2, 4, 5} : \E j \in 1..Len(resp_lines) : NumberedLine(resp_lines[j], k)
    /\ all_articles[3].summary = Some(SummaryUnavailable)
    /\ \A k \in {1, 2, 4, 5} : all_articles[k].summary # Some(SummaryUnavailable)

\* ---------------------------------------------------------------- C6

\* C6: an rss, atom or podcast adapter that does not raise emits, in today-only
\* mode, exactly the entries among the first 50 of the feed whose
\* publicationTime is present and has the UTC date of the clock, in feed
\* order; in full-history mode it emits one item per entry of the feed, in
\* feed order, with the entry's publicationTime, absent when the entry has none.
C6_TemporalFilter ==
    (pc = "returned" /\ FeedType(src_log[1].src.kind) # "scrape" /\ ~src_log[1].src.raises) =>
        LET entries == src_log[1].src.feed.entries
            current == {k \in 1..Len(entries) :
                          /\ k <= 50
                          /\ parse_pub_date(entries[k]) # None
                          /\ UTCDate(parse_pub_date(entries[k])[1]) = UTCDate(now)}
            emitted == IF fetch_all THEN 1..Len(entries) ELSE current
        IN  /\ Len(all_articles) = Cardinality(emitted)
            /\ \A k \in 1..Len(all_articles) :
                  /\ all_articles[k].entry \in emitted
                  /\ all_articles[k].pub_date = parse_pub_date(entries[all_articles[k].entry])
            /\ \A j, k \in 1..Len(all_articles) :
                  j < k => all_articles[j].entry < all_articles[k].entry

\* A today-only call on a feed of more than 50 entries whose entry 51 is of
\* today: some entries are emitted, entry 51 is not.
C6_Witness ==
    /\ pc = "returned"
    /\ ~fetch_all
    /\ ~src_log[1].src.raises
    /\ FeedType(src_log[1].src.kind) # "scrape"
    /\ Len(src_log[1].src.feed.entries) > 50
    /\ is_today(parse_pub_date(src_log[1].src.feed.entries[51]), now)
    /\ Len(all_articles) > 0

\* ---------------------------------------------------------------- C7

\* The key of an item's date group.
KeyOf(a) == IF a.pub_date = None THEN "unknown" ELSE DateStr(UTCDate(a.pub_date[1]))

\* The documents an item is in.
DocsOf(a) == {key \in DOMAIN files : a \in SeqToSet(RowArticles(files[key]))}

\* C7 as stated: in full-history mode a document is written for every key of
\* the bucket mapping, "unknown" included, holding exactly the items of that
\* key, so that every summarized item is in exactly one document.
C7_DocumentPerKey ==
    (pc = "done" /\ fetch_all) =>
        /\ \A a \in SeqToSet(all_articles) :
              KeyOf(a) \in DOMAIN files /\ DocsOf(a) = {KeyOf(a)}
        /\ \A key \in DOMAIN files :
              Len(files[key].rows) =
                  Cardinality({k \in 1..Len(all_articles) : KeyOf(all_articles[k]) = key})

\* C7 amended: in full-history mode a document is written for every key of the
\* bucket mapping but "unknown", named by the key and holding exactly the items
\* of that key; every item that has a publicationTime is in exactly one
\* document, and an item that has none is in no document.
C7_DocumentPerDate ==
    (pc = "done" /\ fetch_all) =>
        /\ DOMAIN files = {KeyOf(a) : a \in SeqToSet(all_articles)} \ {"unknown"}
        /\ \A a \in SeqToSet(all_articles) :
              DocsOf(a) = IF a.pub_date = None THEN {} ELSE {KeyOf(a)}
        /\ \A key \in DOMAIN files :
              /\ files[key].date_str = key
              /\ Len(files[key].rows) =
                    Cardinality({k \in 1..Len(all_articles) : KeyOf(all_articles[k]) = key})
              /\ \A a \in SeqToSet(RowArticles(files[key])) : a \in SeqToSet(all_articles)

\* A full-history run wrote two documents and skipped an item without date.
C7_Witness ==
    /\ pc = "done"
    /\ fetch_all
    /\ Cardinality(DOMAIN files) >= 2
    /\ \E a \in SeqToSet(all_articles) : a.pub_date = None

\* ---------------------------------------------------------------- C8

\* C8: in every written document the rows are in descending publicationTime
\* order, a row without publicationTime comes after every row that has one,
\* the rows are the items given to the renderer, each once, and the
\* total-count line is the number of rows.
C8_RowsNewestFirst ==
    \A key \in DOMAIN files :
        LET rows == RowArticles(files[key])
            given == IF fetch_all
                     THEN {k \in 1..Len(all_articles) : KeyOf(all_articles[k]) = key}
                     ELSE 1..Len(all_articles)
        IN  /\ \A k \in 1..(Len(rows) - 1) :
                  \/ rows[k + 1].pub_date = None
                  \/ /\ rows[k].pub_date # None
                     /\ rows[k].pub_date[1] >= rows[k + 1].pub_date[1]
            /\ \A j, k \in 1..Len(rows) : j # k => rows[j] # rows[k]
            /\ SeqToSet(rows) = {all_articles[k] : k \in given}
            /\ Len(rows) = Cardinality(given)
            /\ files[key].total = Len(rows)

\* A document has two rows of one source in the reverse of their feed order.
C8_Witness ==
    \E key \in DOMAIN files :
        \E k \in 1..(Len(files[key].rows) - 1) :
            LET rows == RowArticles(files[key])
            IN  /\ rows[k].source = rows[k + 1].source
                /\ rows[k].entry > rows[k + 1].entry
                /\ rows[k].pub_date[1] > rows[k + 1].pub_date[1]

\* ---------------------------------------------------------------- C9

\* ceil(m / 20)
BatchCount(m) == (m + batch_size - 1) \div batch_size

\* C9: when main() has ended with M >= 1 accumulated items, exactly ceil(M/20)
\* requests were made, request j for the items 20(j-1)+1 .. min(20j, M), and
\* every item has its summary; a document exists only after the last request.
C9_Batching ==
    /\ \A r \in 1..Len(requests) :
          /\ requests[r].first = batch_size * (r - 1) + 1
          /\ requests[r].last = Min(batch_size * r, Len(all_articles))
    /\ (DOMAIN files # {}) => Len(requests) = BatchCount(Len(all_articles))
    /\ pc \in {"done", "aborted"} =>
          /\ Len(requests) = BatchCount(Len(all_articles))
          /\ \A k \in 1..Len(all_articles) : all_articles[k].summary # None

\* --------------------------------------------------------------- C10

\* C10 as stated: in today-only mode every item of the document has a
\* publicationTime whose UTC date is the date label of the document.
C10_ItemDateIsLabel ==
    (pc = "done" /\ ~fetch_all) =>
        \A key \in DOMAIN files :
            \A a \in SeqToSet(RowArticles(files[key])) :
                a.pub_date # None /\ DateStr(UTCDate(a.pub_date[1])) = files[key].date_str

\* C10 amended: in today-only mode every item of the document has a
\* publicationTime whose UTC date is the UTC date of the clock when its source
\* was fetched; that date is not after the date of the label, which is the UTC
\* date of the clock at write time, and is the date of the label when the UTC
\* date did not change in between.
C10_ItemDateIsFetchDate ==
    (pc = "done" /\ ~fetch_all) =>
        /\ DOMAIN files = {DateStr(UTCDate(now))}
        /\ \A key \in DOMAIN files :
              /\ files[key].date_str = key
              /\ \A a \in SeqToSet(RowArticles(files[key])) :
                    /\ a.pub_date # None
                    /\ UTCDate(a.pub_date[1]) = UTCDate(src_log[a.source].clock)
                    /\ UTCDate(a.pub_date[1]) <= UTCDate(now)
                    /\ UTCDate(src_log[a.source].clock) = UTCDate(now)
                          => DateStr(UTCDate(a.pub_date[1])) = key

\* A today-only run wrote its document after the UTC date changed: a row is of
\* the day before the label, another row of the day of the label.
C10_Witness ==
    /\ pc = "done"
    /\ ~fetch_all
    /\ \E key \in DOMAIN files :
          \E a, b \in SeqToSet(RowArticles(files[key])) :
              /\ DateStr(UTCDate(a.pub_date[1])) # key
              /\ DateStr(UTCDate(b.pub_date[1])) = key

====
